---------------------------- MODULE Spec2Model ----------------------------
(***************************************************************************)
(* A model of nanobot's LiteLLMProvider                                     *)
(* (src/nanobot/providers/litellm_provider.py): environment setup at        *)
(* construction, model-name resolution, parameter overrides, the chat       *)
(* dispatcher, the non-streaming response parser and the stream             *)
(* reassembler.                                                             *)
(*                                                                          *)
(* Text that the code inspects character by character (model names,        *)
(* message content, tool-call argument text) is a sequence of one-character *)
(* strings.  Opaque tags (finish reasons, tool-call ids and names, kwargs   *)
(* keys) are TLA+ strings; the tag "None" stands for Python's None.         *)
(***************************************************************************)
EXTENDS Integers, Sequences, FiniteSets, TLC

(***************************************************************************)
(* Bounds of the model.                                                     *)
(***************************************************************************)
\* longest model name enumerated by the resolver specification
MaxModelLen == 3
\* most chunks one stream delivers
MaxChunks == 3
\* most adapter constructions in one run of the environment specification
MaxConstructions == 2
\* longest rest of an argument text whose every split into fragments is
\* enumerated
MaxPiece == 7

(***************************************************************************)
(* Python values.                                                           *)
(***************************************************************************)
\* None where a character sequence is expected (content, api_key, ...)
NoneVal == <<"<None>">>

\* truthiness of an optional character sequence: None and "" are falsy
Truthy(s) == s # NoneVal /\ s # <<>>

\* truthiness of an optional tag: None and "" are falsy
TruthyTag(t) == t # "None" /\ t # ""

\* x or y, on optional tags
OrTag(x, y) == IF TruthyTag(x) THEN x ELSE y

(***************************************************************************)
(* str operations used by the code.  A character is a one-character        *)
(* string.  The case and white-space tables below are those of CPython for  *)
(* the characters U+0000..U+00FF and the Greek block U+0380..U+03FC; the    *)
(* white-space table also holds U+1680.  A TLA+ string cannot hold U+0060   *)
(* nor a character above U+00FF whose low byte is below 0x80 (so not the    *)
(* white space U+2000..U+200A, U+2028, U+2029, U+202F, U+205F, U+3000, nor  *)
(* U+0130, the one character str.lower() maps to two), and the tables say   *)
(* nothing about them.                                                      *)
(***************************************************************************)
\* the characters c with c.lower() # c, and c.lower() at the same position
UpperChars == <<"A","B","C","D","E","F","G","H","I","J","K","L","M","N",
    "O","P","Q","R","S","T","U","V","W","X","Y","Z","À","Á","Â","Ã","Ä",
    "Å","Æ","Ç","È","É","Ê","Ë","Ì","Í","Î","Ï","Ð","Ñ","Ò","Ó","Ô","Õ",
    "Ö","Ø","Ù","Ú","Û","Ü","Ý","Þ","Ά","Έ","Ή","Ί","Ό","Ύ","Ώ","Α","Β",
    "Γ","Δ","Ε","Ζ","Η","Θ","Ι","Κ","Λ","Μ","Ν","Ξ","Ο","Π","Ρ","Σ","Τ",
    "Υ","Φ","Χ","Ψ","Ω","Ϊ","Ϋ","Ϗ","Ϙ","Ϛ","Ϝ","Ϟ","Ϡ","Ϣ","Ϥ","Ϧ","Ϩ",
    "Ϫ","Ϭ","Ϯ","ϴ","Ϸ","Ϲ","Ϻ">>
LowerChars == <<"a","b","c","d","e","f","g","h","i","j","k","l","m","n",
    "o","p","q","r","s","t","u","v","w","x","y","z","à","á","â","ã","ä",
    "å","æ","ç","è","é","ê","ë","ì","í","î","ï","ð","ñ","ò","ó","ô","õ",
    "ö","ø","ù","ú","û","ü","ý","þ","ά","έ","ή","ί","ό","ύ","ώ","α","β",
    "γ","δ","ε","ζ","η","θ","ι","κ","λ","μ","ν","ξ","ο","π","ρ","σ","τ",
    "υ","φ","χ","ψ","ω","ϊ","ϋ","ϗ","ϙ","ϛ","ϝ","ϟ","ϡ","ϣ","ϥ","ϧ","ϩ",
    "ϫ","ϭ","ϯ","θ","ϸ","ϲ","ϻ">>

\* the cased characters that str.lower() leaves alone
CasedOther == {"ª","µ","º","ß","ÿ","ΐ","ΰ","ς","ϐ","ϑ","ϒ","ϓ","ϔ","ϕ","ϖ",
    "ϰ","ϱ","ϳ","ϵ","ϼ"}

\* the characters the final-sigma rule skips
CaseIgnorable == {"'",".",":","^","¨","­","¯","´","·","¸","΄","΅","·"}

Cased == { UpperChars[i] : i \in 1..Len(UpperChars) }
             \cup { LowerChars[i] : i \in 1..Len(LowerChars) } \cup CasedOther

LowerChar(c) ==
    IF \E i \in 1..Len(UpperChars) : UpperChars[i] = c
    THEN LowerChars[CHOOSE i \in 1..Len(UpperChars) : UpperChars[i] = c]
    ELSE c

\* the capital sigma s[i] ends a word: the nearest character before it that
\* is not case-ignorable is cased, and the nearest one after it is not
FinalSigma(s, i) ==
    LET before == { j \in 1..(i - 1) : s[j] \notin CaseIgnorable }
        after == { j \in (i + 1)..Len(s) : s[j] \notin CaseIgnorable }
    IN /\ before # {}
       /\ s[CHOOSE j \in before : \A k \in before : k <= j] \in Cased
       /\ \/ after = {}
          \/ s[CHOOSE j \in after : \A k \in after : j <= k] \notin Cased

\* str.lower()
Lower(s) ==
    [i \in 1..Len(s) |-> IF s[i] = "Σ" /\ FinalSigma(s, i) THEN "ς"
                         ELSE LowerChar(s[i])]

\* s.startswith(p)
StartsWith(s, p) == Len(p) <= Len(s) /\ SubSeq(s, 1, Len(p)) = p

\* s.find(p, from): the least position >= from where p occurs in s, else 0
\* (positions are 1-based)
Find(s, p, from) ==
    LET hits == { i \in from..(Len(s) - Len(p) + 1) :
                      SubSeq(s, i, i + Len(p) - 1) = p }
    IN IF hits = {} THEN 0 ELSE CHOOSE i \in hits : \A j \in hits : i <= j

\* p in s
Contains(s, p) == Find(s, p, 1) # 0

\* s.split("/")[-1]: what follows the last slash (all of s when it has none)
LastSegment(s) ==
    LET slashes == { i \in 1..Len(s) : s[i] = "/" }
    IN IF slashes = {} THEN s
       ELSE SubSeq(s, (CHOOSE i \in slashes : \A j \in slashes : j <= i) + 1, Len(s))

\* the characters c with c.isspace()
WhiteSpace == {" ","\t","\n","","\f","\r","","","","",""," "," "}

\* str.strip()
Strip(s) ==
    LET keep == { i \in 1..Len(s) : s[i] \notin WhiteSpace }
    IN IF keep = {} THEN <<>>
       ELSE SubSeq(s, CHOOSE i \in keep : \A j \in keep : i <= j,
                      CHOOSE i \in keep : \A j \in keep : j <= i)

(***************************************************************************)
(* _strip_thinking: re.sub(r"<think>.*?</think>", "", text, DOTALL).  The   *)
(* leftmost "<think>" that has a "</think>" after it is removed up to the   *)
(* first such "</think>"; the scan goes on after the removed block.         *)
(***************************************************************************)
ThinkOpen == <<"<","t","h","i","n","k",">">>
ThinkClose == <<"<","/","t","h","i","n","k",">">>

RECURSIVE RemoveThink(_)
RemoveThink(s) ==
    LET o == Find(s, ThinkOpen, 1)
        c == IF o = 0 THEN 0 ELSE Find(s, ThinkClose, o + Len(ThinkOpen))
    IN IF c = 0 THEN s
       ELSE SubSeq(s, 1, o - 1)
            \o RemoveThink(SubSeq(s, c + Len(ThinkClose), Len(s)))

StripThinking(text) ==
    IF ~Truthy(text) THEN text
    ELSE LET r == Strip(RemoveThink(text))
         IN IF r = <<>> THEN NoneVal ELSE r

(***************************************************************************)
(* json.loads on the texts that hold no comma, bracket, backslash, full     *)
(* stop or U+0000 and in which neither e nor E follows a digit outside a    *)
(* string literal (no array, escape, fraction or exponent), nested less     *)
(* deep than the interpreter's recursion limit.  In such a text a JSON      *)
(* value is a string, an integer, one of the literals null, true, false,    *)
(* NaN, Infinity, -Infinity, or an object with at most one member.  A       *)
(* parsed value is represented by its text without the insignificant white  *)
(* space (0 for -0), which identifies the Python value.  The outcome of a   *)
(* parse is ok with the value (canon) and the position after it (next), or  *)
(* a JSONDecodeError (not ok, raises empty), or another exception with its  *)
(* text (raises).                                                           *)
(***************************************************************************)
JsonWs == {" ", "\n", "\t", "\r"}
Digits == {"0", "1", "2", "3", "4", "5", "6", "7", "8", "9"}

\* sys.get_int_max_str_digits(): int() refuses a longer digit run
IntMaxStrDigits == 4300

JsonFail == [ok |-> FALSE, next |-> 0, canon |-> <<>>, raises |-> <<>>]
JsonValue(next, canon) ==
    [ok |-> TRUE, next |-> next, canon |-> canon, raises |-> <<>>]

\* str(e) of the ValueError of int() on a run of n digits
DigitLimitError(n) ==
    <<"Exceeds the limit (", ToString(IntMaxStrDigits),
      " digits) for integer string conversion: value has ", ToString(n),
      " digits; use sys.set_int_max_str_digits() to increase the limit">>

\* the first position >= i of s that holds no white space (Len(s)+1 at the end)
SkipWs(s, i) ==
    LET stops == { j \in i..Len(s) : s[j] \notin JsonWs }
    IN IF stops = {} THEN Len(s) + 1
       ELSE CHOOSE j \in stops : \A k \in stops : j <= k

\* the text lit stands in s at position i
LiteralAt(s, i, lit) ==
    i + Len(lit) - 1 <= Len(s) /\ SubSeq(s, i, i + Len(lit) - 1) = lit

\* the characters U+0001..U+001F, which a string literal may not hold
ControlChars == {"","","","","","","","","\t","\n","","\f",
    "\r","","","","","","","","","","","","","","","","",
    "",""}

\* a string literal opening at s[i] = "\""
ParseString(s, i) ==
    LET close == Find(s, <<"\"">>, i + 1)
    IN IF close = 0 \/ \E j \in (i + 1)..(close - 1) : s[j] \in ControlChars \cup {"\\"}
       THEN JsonFail
       ELSE JsonValue(close + 1, SubSeq(s, i, close))

\* an integer whose digits open at s[i]: 0, or a digit run without leading
\* 0; int() of the run gives the value, minus zero being zero
ParseNumber(s, i, minus) ==
    LET stops == { j \in i..Len(s) : s[j] \notin Digits }
        end == IF s[i] = "0" THEN i + 1
               ELSE IF stops = {} THEN Len(s) + 1
               ELSE CHOOSE j \in stops : \A k \in stops : j <= k
    IN IF end - i > IntMaxStrDigits
       THEN [JsonFail EXCEPT !.raises = DigitLimitError(end - i)]
       ELSE JsonValue(end,
                      (IF minus /\ s[i] # "0" THEN <<"-">> ELSE <<>>)
                          \o SubSeq(s, i, end - 1))

JsonNull == <<"n", "u", "l", "l">>
JsonTrue == <<"t", "r", "u", "e">>
JsonFalse == <<"f", "a", "l", "s", "e">>
JsonNaN == <<"N", "a", "N">>
JsonInfinity == <<"I", "n", "f", "i", "n", "i", "t", "y">>
JsonLiterals ==
    <<JsonNull, JsonTrue, JsonFalse, JsonNaN, JsonInfinity, <<"-">> \o JsonInfinity>>

RECURSIVE ParseValue(_, _)
ParseValue(s, i) ==
    IF i > Len(s) THEN JsonFail
    ELSE IF s[i] = "\"" THEN ParseString(s, i)
    ELSE IF \E n \in 1..Len(JsonLiterals) : LiteralAt(s, i, JsonLiterals[n])
    THEN LET lit == JsonLiterals[CHOOSE n \in 1..Len(JsonLiterals) :
                                     LiteralAt(s, i, JsonLiterals[n])]
         IN JsonValue(i + Len(lit), lit)
    ELSE IF s[i] \in Digits THEN ParseNumber(s, i, FALSE)
    ELSE IF s[i] = "-"
    THEN IF i < Len(s) /\ s[i + 1] \in Digits THEN ParseNumber(s, i + 1, TRUE)
         ELSE JsonFail
    ELSE IF s[i] # "{" THEN JsonFail
    ELSE LET j == SkipWs(s, i + 1)
         IN IF j > Len(s) THEN JsonFail
            ELSE IF s[j] = "}" THEN JsonValue(j + 1, <<"{", "}">>)
            ELSE IF s[j] # "\"" THEN JsonFail
            ELSE LET key == ParseString(s, j)
                     colon == IF key.ok THEN SkipWs(s, key.next) ELSE 0
                 IN IF ~key.ok \/ colon > Len(s) THEN JsonFail
                    ELSE IF s[colon] # ":" THEN JsonFail
                    ELSE LET val == ParseValue(s, SkipWs(s, colon + 1))
                             close == IF val.ok THEN SkipWs(s, val.next) ELSE 0
                         IN IF ~val.ok THEN val
                            ELSE IF close > Len(s) THEN JsonFail
                            ELSE IF s[close] # "}" THEN JsonFail
                            ELSE JsonValue(close + 1,
                                           <<"{">> \o key.canon \o <<":">>
                                               \o val.canon \o <<"}">>)

\* json.loads(s): ok when s is one JSON value between optional white space
JsonLoads(s) ==
    LET v == ParseValue(s, SkipWs(s, 1))
    IN IF ~v.ok THEN v
       ELSE IF SkipWs(s, v.next) = Len(s) + 1 THEN v ELSE JsonFail

\* a tool call's arguments: a parsed JSON value, or the wrapper {"raw": text}
Parsed(canon) == <<"json", canon>>
RawArgs(text) == <<"raw", text>>
EmptyMapping == Parsed(<<"{", "}">>)

(***************************************************************************)
(* The provider registry (nanobot.providers.registry).  A descriptor        *)
(* carries the fields the adapter reads.  The table is an ordered list of   *)
(* standard descriptors, found by keyword, and gateway descriptors, found   *)
(* by the configured provider name.  The table is data the adapter is      *)
(* given: nothing relates a descriptor's skip-prefixes to its own prefix,   *)
(* or its prefix to the keywords of the other descriptors, so the table     *)
(* holds a prefixed descriptor that does not list "<prefix>/" among its     *)
(* skip-prefixes (SpecMs) and one that does, and whose prefix contains a    *)
(* keyword of an earlier descriptor (SpecNk).                               *)
(***************************************************************************)
NoSpec ==
    [name |-> "None", is_gateway |-> FALSE, keywords |-> {}, env_key |-> "",
     default_api_base |-> <<>>, litellm_prefix |-> <<>>, skip_prefixes |-> {},
     strip_model_prefix |-> FALSE, model_overrides |-> <<>>,
     force_stream |-> FALSE, env_extras |-> <<>>]

\* standard provider without a prefix
SpecGp ==
    [NoSpec EXCEPT !.name = "gp", !.keywords = {<<"g">>}, !.env_key = "GP_KEY"]

\* standard provider with a prefix, skip-prefixes that name other routes and
\* not its own prefix, override rules and an extra environment variable
SpecMs ==
    [NoSpec EXCEPT !.name = "ms", !.keywords = {<<"k">>}, !.env_key = "MS_KEY",
        !.default_api_base = <<"ms.default">>,
        !.litellm_prefix = <<"m">>,
        !.skip_prefixes = {<<"2", "/">>, <<"o", "/">>},
        !.model_overrides =
            << [pattern |-> <<"k", "k">>, overrides |-> [temperature |-> 10]],
               [pattern |-> <<"k", "2">>, overrides |-> [temperature |-> 5]],
               [pattern |-> <<"2">>,
                overrides |-> [temperature |-> 3, max_tokens |-> 1]] >>,
        !.env_extras = << [name |-> "MS_BASE", template |-> <<"{api_base}">>] >>]

\* standard provider whose API always streams
SpecSse ==
    [NoSpec EXCEPT !.name = "sse", !.keywords = {<<"2">>}, !.env_key = "SSE_KEY",
        !.force_stream = TRUE]

\* standard provider that lists its own prefix among its skip-prefixes; the
\* prefix contains the keyword of SpecMs, an earlier descriptor
SpecNk ==
    [NoSpec EXCEPT !.name = "nk", !.keywords = {<<"n">>}, !.env_key = "SSE_KEY",
        !.litellm_prefix = <<"n", "k">>,
        !.skip_prefixes = {<<"n", "k", "/">>}]

\* gateway that strips the model's own prefix and shares a standard
\* provider's credential variable
SpecHub ==
    [NoSpec EXCEPT !.name = "hub", !.is_gateway = TRUE, !.env_key = "GP_KEY",
        !.litellm_prefix = <<"g">>, !.strip_model_prefix = TRUE,
        !.model_overrides =
            << [pattern |-> <<"K">>, overrides |-> [temperature |-> 10]],
               [pattern |-> <<"g", "/", "k">>, overrides |-> [max_tokens |-> 1]] >>]

\* gateway that keeps the model's prefix and whose API always streams
SpecTamu ==
    [NoSpec EXCEPT !.name = "tamu", !.is_gateway = TRUE, !.env_key = "TAMU_KEY",
        !.default_api_base = <<"tamu.default">>,
        !.litellm_prefix = <<"o">>, !.force_stream = TRUE,
        !.env_extras = << [name |-> "GP_KEY", template |-> <<"{api_key}">>],
                          [name |-> "MS_BASE",
                           template |-> <<"{api_base}", "/v1">>] >>]

\* gateway with an override rule that names every call argument: the limits
\* the caller sets and the arguments chat attaches from its configuration;
\* its second rule names the stream flag
SpecOv ==
    [NoSpec EXCEPT !.name = "ov", !.is_gateway = TRUE, !.env_key = "GP_KEY",
        !.model_overrides =
            << [pattern |-> <<"k">>,
                overrides |-> [temperature |-> 1, max_tokens |-> 2,
                               api_key |-> <<"rule-key">>,
                               api_base |-> <<"rule-base">>,
                               extra_headers |-> <<"rule-header">>,
                               tools |-> <<"rule-tool">>,
                               tool_choice |-> "none"]],
               [pattern |-> <<"g">>,
                overrides |-> [temperature |-> 9, stream |-> TRUE]] >>]

PROVIDERS == <<SpecGp, SpecMs, SpecSse, SpecNk, SpecHub, SpecTamu, SpecOv>>

\* find_by_model: the first standard descriptor one of whose keywords occurs
\* in the lower-cased model name
find_by_model(model) ==
    LET hits == { i \in 1..Len(PROVIDERS) :
                     /\ ~PROVIDERS[i].is_gateway
                     /\ \E kw \in PROVIDERS[i].keywords : Contains(Lower(model), kw) }
    IN IF hits = {} THEN NoSpec
       ELSE PROVIDERS[CHOOSE i \in hits : \A j \in hits : i <= j]

\* find_gateway: the gateway descriptor the configured provider name selects
find_gateway(provider_name, api_key, api_base) ==
    LET hits == { i \in 1..Len(PROVIDERS) :
                     PROVIDERS[i].is_gateway /\ PROVIDERS[i].name = provider_name }
    IN IF hits = {} THEN NoSpec
       ELSE PROVIDERS[CHOOSE i \in hits : \A j \in hits : i <= j]

(***************************************************************************)
(* _resolve_model                                                           *)
(***************************************************************************)
Prefixed(prefix, model) == prefix \o <<"/">> \o model

ResolveModelFirstSegment(gateway, model) ==
    IF gateway # NoSpec
    THEN LET m == IF gateway.strip_model_prefix
                  THEN (IF Find(model, <<"/">>, 1) = 0 THEN model
                        ELSE SubSeq(model, Find(model, <<"/">>, 1) + 1, Len(model)))
                  ELSE model
         IN IF gateway.litellm_prefix # <<>>
               /\ ~StartsWith(m, gateway.litellm_prefix \o <<"/">>)
            THEN Prefixed(gateway.litellm_prefix, m)
            ELSE m
    ELSE LET spec == find_by_model(model)
         IN IF /\ spec # NoSpec
               /\ spec.litellm_prefix # <<>>
               /\ ~\E s \in spec.skip_prefixes : StartsWith(model, s)
            THEN Prefixed(spec.litellm_prefix, model)
            ELSE model

ResolveModel(gateway, model) ==
    IF gateway # NoSpec
    THEN LET m == IF gateway.strip_model_prefix THEN LastSegment(model) ELSE model
         IN IF gateway.litellm_prefix # <<>>
               /\ ~StartsWith(m, gateway.litellm_prefix \o <<"/">>)
            THEN Prefixed(gateway.litellm_prefix, m)
            ELSE m
    ELSE LET spec == find_by_model(model)
         IN IF /\ spec # NoSpec
               /\ spec.litellm_prefix # <<>>
               /\ ~\E s \in spec.skip_prefixes : StartsWith(model, s)
            THEN Prefixed(spec.litellm_prefix, model)
            ELSE model

\* _get_effective_spec
EffectiveSpec(gateway, model) ==
    IF gateway # NoSpec THEN gateway ELSE find_by_model(model)

(***************************************************************************)
(* _apply_model_overrides.  Call arguments are a function from argument     *)
(* names to values; dict.update lets the right-hand mapping win.            *)
(***************************************************************************)
Update(kwargs, overrides) ==
    [k \in DOMAIN kwargs \cup DOMAIN overrides |->
        IF k \in DOMAIN overrides THEN overrides[k] ELSE kwargs[k]]

\* the positions of the rules whose pattern occurs in the lower-cased model
MatchingRules(spec, model) ==
    { i \in 1..Len(spec.model_overrides) :
          Contains(Lower(model), spec.model_overrides[i].pattern) }

ApplyModelOverridesAll(gateway, model, kwargs) ==
    LET spec == EffectiveSpec(gateway, model)
        hits == MatchingRules(spec, model)
        named(k) == { i \in hits : k \in DOMAIN spec.model_overrides[i].overrides }
    IN [k \in DOMAIN kwargs
                \cup UNION { DOMAIN spec.model_overrides[i].overrides : i \in hits } |->
           IF named(k) = {} THEN kwargs[k]
           ELSE spec.model_overrides[CHOOSE i \in named(k) :
                                        \A j \in named(k) : j <= i].overrides[k]]

\* _apply_model_overrides: the first rule whose pattern occurs in the
\* lower-cased model updates the call arguments; the later rules are not
\* looked at
ApplyModelOverrides(gateway, model, kwargs) ==
    LET spec == EffectiveSpec(gateway, model)
        hits == MatchingRules(spec, model)
    IN IF hits = {} THEN kwargs
       ELSE Update(kwargs,
                   spec.model_overrides[CHOOSE i \in hits : \A j \in hits : i <= j]
                       .overrides)

(***************************************************************************)
(* The process environment and _setup_env.  An environment value is a       *)
(* sequence of text pieces; a template's placeholders are pieces of their   *)
(* own.                                                                     *)
(***************************************************************************)
EnvNames == {"GP_KEY", "MS_KEY", "MS_BASE", "SSE_KEY", "TAMU_KEY"}

\* a variable that is not in the environment
Unset == <<"<unset>">>

\* str.replace(piece, by)
RECURSIVE Replace(_, _, _)
Replace(s, piece, by) ==
    IF s = <<>> THEN <<>>
    ELSE (IF Head(s) = piece THEN by ELSE <<Head(s)>>)
         \o Replace(Tail(s), piece, by)

\* os.environ.setdefault(name, value)
SetDefault(e, name, value) ==
    IF e[name] = Unset THEN [e EXCEPT ![name] = value] ELSE e

\* os.environ[name] = value
SetEnv(e, name, value) == [e EXCEPT ![name] = value]

RECURSIVE SetExtras(_, _, _, _)
SetExtras(e, extras, api_key, effective_base) ==
    IF extras = <<>> THEN e
    ELSE LET resolved == Replace(Replace(Head(extras).template,
                                         "{api_key}", api_key),
                                 "{api_base}", effective_base)
         IN SetExtras(SetDefault(e, Head(extras).name, resolved),
                      Tail(extras), api_key, effective_base)

SetupEnvAlwaysOverwrite(e, gateway, api_key, api_base, model) ==
    LET spec == EffectiveSpec(gateway, model)
        effective_base == IF Truthy(api_base) THEN api_base
                          ELSE spec.default_api_base
    IN IF spec = NoSpec THEN e
       ELSE SetExtras(SetEnv(e, spec.env_key, api_key),
                      spec.env_extras, api_key, effective_base)

SetupEnv(e, gateway, api_key, api_base, model) ==
    LET spec == EffectiveSpec(gateway, model)
        effective_base == IF Truthy(api_base) THEN api_base
                          ELSE spec.default_api_base
        withKey == IF gateway # NoSpec
                   THEN SetEnv(e, spec.env_key, api_key)
                   ELSE SetDefault(e, spec.env_key, api_key)
    IN IF spec = NoSpec THEN e
       ELSE SetExtras(withKey, spec.env_extras, api_key, effective_base)

(***************************************************************************)
(* Transport responses and the unified result (LLMResponse).                *)
(*   response: [content, tool_calls, finish_reason, usage,                  *)
(*              reasoning_content], a tool call being [id, name, arguments] *)
(*              with the arguments as text;                                 *)
(*   chunk:    [content, tool_calls, finish_reason, usage], a tool-call     *)
(*              fragment being [index, id, name, arguments];                *)
(*   usage:    <<>> when absent, else <<prompt, completion, total>>, a      *)
(*              negative count standing for None.                           *)
(***************************************************************************)
NoUsage == <<>>

\* an exception with text e leaves the function instead of a result
Raised(e) == [exception |-> e]
Raises(outcome) == "exception" \in DOMAIN outcome

\* the arguments of one tool call: json.loads, {"raw": text} when it raises
\* JSONDecodeError; any other exception of json.loads is not caught here
ArgsOf(text, loaded) ==
    IF loaded.raises # <<>> THEN <<"raise", loaded.raises>>
    ELSE IF loaded.ok THEN Parsed(loaded.canon)
    ELSE RawArgs(text)

LoadArgs(text) == ArgsOf(text, JsonLoads(text))

\* the least index whose arguments raised (0 when none did)
FirstRaise(tool_calls) ==
    LET bad == { i \in 1..Len(tool_calls) : tool_calls[i].arguments[1] = "raise" }
    IN IF bad = {} THEN 0 ELSE CHOOSE i \in bad : \A j \in bad : i <= j

\* what acompletion returns when it is called with stream=True: the chunks
\* of the response, an object without the attribute choices
StreamOf(response) == [chunks_of |-> response]
NoChoicesError ==
    <<"'CustomStreamWrapper' object has no attribute 'choices'">>

\* the tool calls of a response, their arguments loaded
ParsedToolCalls(response) ==
    [i \in 1..Len(response.tool_calls) |->
        [id |-> response.tool_calls[i].id,
         name |-> response.tool_calls[i].name,
         arguments |-> LoadArgs(response.tool_calls[i].arguments)]]

\* the result made of the tool calls and the fields of the source (the
\* response, or the accumulators), unless loading a tool call's arguments
\* raised
ResultOf(tool_calls, content, finish_reason, usage, reasoning_content) ==
    IF FirstRaise(tool_calls) # 0
    THEN Raised(tool_calls[FirstRaise(tool_calls)].arguments[2])
    ELSE [content |-> StripThinking(content),
          tool_calls |-> tool_calls,
          finish_reason |-> finish_reason,
          usage |-> usage,
          reasoning_content |-> reasoning_content]

\* _parse_response
ParseResponse(response) ==
    IF "chunks_of" \in DOMAIN response THEN Raised(NoChoicesError)
    ELSE ResultOf(ParsedToolCalls(response), response.content,
                  OrTag(response.finish_reason, "stop"), response.usage,
                  response.reasoning_content)

\* the result chat returns for a caught exception with text e
ErrorResult(e) ==
    [content |-> <<"Error calling LLM: ">> \o e,
     tool_calls |-> <<>>,
     finish_reason |-> "error",
     usage |-> NoUsage,
     reasoning_content |-> NoneVal]

(***************************************************************************)
(* _stream_and_reassemble: the accumulators, one chunk, the final result.   *)
(***************************************************************************)
InitAcc ==
    [content_parts |-> <<>>, tool_calls_raw |-> <<>>,
     finish_reason |-> "stop", usage |-> NoUsage]

\* n or 0
CountOrZero(n) == IF n < 0 THEN 0 ELSE n

AccFragmentErase(raw, tc) ==
    LET base == IF tc.index \in DOMAIN raw THEN raw
                ELSE (tc.index :> [id |-> OrTag(tc.id, ""),
                                   name |-> OrTag(tc.name, ""),
                                   arguments |-> <<>>]) @@ raw
        entry == base[tc.index]
    IN [base EXCEPT ![tc.index] =
           [id |-> OrTag(tc.id, ""),
            name |-> OrTag(tc.name, ""),
            arguments |-> IF Truthy(tc.arguments)
                          THEN entry.arguments \o tc.arguments
                          ELSE entry.arguments]]

AccFragmentOverwrite(raw, tc) ==
    LET base == IF tc.index \in DOMAIN raw THEN raw
                ELSE (tc.index :> [id |-> OrTag(tc.id, ""),
                                   name |-> OrTag(tc.name, ""),
                                   arguments |-> <<>>]) @@ raw
        entry == base[tc.index]
    IN [base EXCEPT ![tc.index] =
           [id |-> IF TruthyTag(tc.id) THEN tc.id ELSE entry.id,
            name |-> IF TruthyTag(tc.name) THEN tc.name ELSE entry.name,
            arguments |-> IF Truthy(tc.arguments) THEN tc.arguments
                          ELSE entry.arguments]]

\* one tool-call fragment merged into tool_calls_raw
AccFragment(raw, tc) ==
    LET base == IF tc.index \in DOMAIN raw THEN raw
                ELSE (tc.index :> [id |-> OrTag(tc.id, ""),
                                   name |-> OrTag(tc.name, ""),
                                   arguments |-> <<>>]) @@ raw
        entry == base[tc.index]
    IN [base EXCEPT ![tc.index] =
           [id |-> IF TruthyTag(tc.id) THEN tc.id ELSE entry.id,
            name |-> IF TruthyTag(tc.name) THEN tc.name ELSE entry.name,
            arguments |-> IF Truthy(tc.arguments)
                          THEN entry.arguments \o tc.arguments
                          ELSE entry.arguments]]

RECURSIVE AccFragments(_, _)
AccFragments(raw, tcs) ==
    IF tcs = <<>> THEN raw
    ELSE AccFragments(AccFragment(raw, Head(tcs)), Tail(tcs))

AccChunkFinishErased(acc, chunk) ==
    [content_parts |-> IF Truthy(chunk.content)
                       THEN Append(acc.content_parts, chunk.content)
                       ELSE acc.content_parts,
     tool_calls_raw |-> AccFragments(acc.tool_calls_raw, chunk.tool_calls),
     finish_reason |-> IF chunk.finish_reason # "None"
                       THEN chunk.finish_reason
                       ELSE acc.finish_reason,
     usage |-> IF chunk.usage # NoUsage
               THEN [i \in 1..3 |-> CountOrZero(chunk.usage[i])]
               ELSE acc.usage]

AccChunkUsageFirst(acc, chunk) ==
    [content_parts |-> IF Truthy(chunk.content)
                       THEN Append(acc.content_parts, chunk.content)
                       ELSE acc.content_parts,
     tool_calls_raw |-> AccFragments(acc.tool_calls_raw, chunk.tool_calls),
     finish_reason |-> IF TruthyTag(chunk.finish_reason)
                       THEN chunk.finish_reason
                       ELSE acc.finish_reason,
     usage |-> IF chunk.usage # NoUsage /\ acc.usage = NoUsage
               THEN [i \in 1..3 |-> CountOrZero(chunk.usage[i])]
               ELSE acc.usage]

\* the body of the async-for loop, for one chunk
AccChunk(acc, chunk) ==
    [content_parts |-> IF Truthy(chunk.content)
                       THEN Append(acc.content_parts, chunk.content)
                       ELSE acc.content_parts,
     tool_calls_raw |-> AccFragments(acc.tool_calls_raw, chunk.tool_calls),
     finish_reason |-> IF TruthyTag(chunk.finish_reason)
                       THEN chunk.finish_reason
                       ELSE acc.finish_reason,
     usage |-> IF chunk.usage # NoUsage
               THEN [i \in 1..3 |-> CountOrZero(chunk.usage[i])]
               ELSE acc.usage]

\* "".join(parts)
RECURSIVE Join(_)
Join(parts) == IF parts = <<>> THEN <<>> ELSE Head(parts) \o Join(Tail(parts))

\* the keys of a dict in ascending order: sorted(d)
RECURSIVE SortedKeysDescending(_)
RECURSIVE SortedKeys(_)
SortedKeysDescending(keys) ==
    IF keys = {} THEN <<>>
    ELSE LET most == CHOOSE k \in keys : \A j \in keys : j <= k
         IN <<most>> \o SortedKeysDescending(keys \ {most})

SortedKeys(keys) ==
    IF keys = {} THEN <<>>
    ELSE LET least == CHOOSE k \in keys : \A j \in keys : k <= j
         IN <<least>> \o SortedKeys(keys \ {least})

\* the arguments of one reassembled tool call
StreamArgs(text) == IF text # <<>> THEN LoadArgs(text) ELSE EmptyMapping

\* the tool calls by ascending index, their arguments loaded
StreamToolCalls(acc) ==
    LET order == SortedKeys(DOMAIN acc.tool_calls_raw)
    IN [i \in 1..Len(order) |->
           [id |-> acc.tool_calls_raw[order[i]].id,
            name |-> acc.tool_calls_raw[order[i]].name,
            arguments |-> StreamArgs(acc.tool_calls_raw[order[i]].arguments)]]

\* "".join(content_parts) or None
JoinedOrNone(parts) == IF Join(parts) = <<>> THEN NoneVal ELSE Join(parts)

\* what follows the loop: the tool calls by ascending index and the result
Reassemble(acc) ==
    ResultOf(StreamToolCalls(acc), JoinedOrNone(acc.content_parts),
             acc.finish_reason, acc.usage, NoneVal)

(***************************************************************************)
(* chat: the call arguments and the route.                                  *)
(***************************************************************************)
DefaultMaxTokens == 4096
\* the default temperature 0.7, in tenths
DefaultTemperature == 7

\* successive dict updates: for each key the last mapping that has it wins
MergeInOrder(maps) ==
    [k \in UNION { DOMAIN maps[i] : i \in 1..Len(maps) } |->
        maps[CHOOSE i \in 1..Len(maps) :
                /\ k \in DOMAIN maps[i]
                /\ \A j \in 1..Len(maps) : k \in DOMAIN maps[j] => j <= i][k]]

\* the model chat resolves: the one asked for, else the default model
CallModel(adapter, args) ==
    ResolveModel(adapter.gateway,
                 IF Truthy(args.model) THEN args.model ELSE adapter.default_model)

BuildKwargsOverridesLast(adapter, args) ==
    MergeInOrder(<<
        [model |-> CallModel(adapter, args), messages |-> args.messages,
         max_tokens |-> args.max_tokens,
         temperature |-> args.temperature, stream |-> FALSE],
        IF Truthy(adapter.api_key) THEN [api_key |-> adapter.api_key] ELSE <<>>,
        IF Truthy(adapter.api_base) THEN [api_base |-> adapter.api_base] ELSE <<>>,
        IF adapter.extra_headers # <<>>
        THEN [extra_headers |-> adapter.extra_headers] ELSE <<>>,
        IF Truthy(args.tools)
        THEN [tools |-> args.tools, tool_choice |-> "auto"] ELSE <<>>,
        ApplyModelOverrides(adapter.gateway, CallModel(adapter, args), <<>>) >>)

\* the call arguments chat hands to the transport, before the route is chosen:
\* the caller's values, then the overrides, then credential, base URL,
\* headers, and tools with tool_choice
BuildKwargs(adapter, args) ==
    MergeInOrder(<<
        ApplyModelOverrides(adapter.gateway, CallModel(adapter, args),
            [model |-> CallModel(adapter, args), messages |-> args.messages,
             max_tokens |-> args.max_tokens,
             temperature |-> args.temperature, stream |-> FALSE]),
        IF Truthy(adapter.api_key) THEN [api_key |-> adapter.api_key] ELSE <<>>,
        IF Truthy(adapter.api_base) THEN [api_base |-> adapter.api_base] ELSE <<>>,
        IF adapter.extra_headers # <<>>
        THEN [extra_headers |-> adapter.extra_headers] ELSE <<>>,
        IF Truthy(args.tools)
        THEN [tools |-> args.tools, tool_choice |-> "auto"] ELSE <<>> >>)

\* whether the effective descriptor of the resolved model forces streaming
ForceStream(adapter, model) ==
    LET spec == EffectiveSpec(adapter.gateway, model)
    IN spec # NoSpec /\ spec.force_stream

(***************************************************************************)
(* The state.                                                               *)
(*   env      the process environment (os.environ)                          *)
(*   litellm  the settings of the litellm module that __init__ writes       *)
(*   adapter  the fields of the adapter object                              *)
(*   cons     what the last construction was given and found (history)      *)
(*   calls    the chat calls in progress, by call id                        *)
(*   probe    one application of the resolver functions to chosen inputs    *)
(***************************************************************************)
VARIABLES env, litellm, adapter, cons, calls, probe

vars == <<env, litellm, adapter, cons, calls, probe>>

(***************************************************************************)
(* Inputs.                                                                  *)
(***************************************************************************)
ModelChars == {"k", "K", "2", "g", "m", "n", "/"}
ModelNames == UNION { [1..n -> ModelChars] : n \in 0..MaxModelLen }
Gateways == {NoSpec, SpecHub, SpecTamu}

\* no credential, the empty credential and two credentials
ApiKeys == {NoneVal, <<>>, <<"key1">>, <<"key2">>}
ApiBases == {NoneVal, <<"base1">>}
DefaultModels == {<<"k">>, <<"g">>, <<"m">>}
ProviderNames == {"None", "hub", "tamu"}
Preset == <<"preset">>

Messages == <<"hello">>
Errors == {<<"connection reset">>}

(***************************************************************************)
(* __init__                                                                 *)
(***************************************************************************)
NoAdapter ==
    [api_key |-> NoneVal, api_base |-> NoneVal, default_model |-> <<>>,
     extra_headers |-> <<>>, gateway |-> NoSpec]

NewAdapter(api_key, api_base, default_model, extra_headers, provider_name) ==
    [api_key |-> api_key, api_base |-> api_base,
     default_model |-> default_model,
     extra_headers |-> extra_headers,
     gateway |-> find_gateway(provider_name, api_key, api_base)]

\* the environment __init__ leaves
InitEnvOf(e, api_key, api_base, default_model, provider_name) ==
    IF Truthy(api_key)
    THEN SetupEnv(e, find_gateway(provider_name, api_key, api_base),
                  api_key, api_base, default_model)
    ELSE e

\* the litellm settings __init__ leaves
InitLitellmOf(l, api_base) ==
    [api_base |-> IF Truthy(api_base) THEN api_base ELSE l.api_base,
     suppress_debug_info |-> TRUE, drop_params |-> TRUE]

FreshLitellm ==
    [api_base |-> NoneVal, suppress_debug_info |-> FALSE, drop_params |-> FALSE]

NoCons ==
    [n |-> 0, inputs |-> <<NoneVal, NoneVal, <<>>, "None">>,
     before |-> [v \in EnvNames |-> Unset], repeated |-> FALSE]

Construct(api_key, api_base, default_model, provider_name) ==
    /\ cons.n < MaxConstructions
    /\ adapter' = NewAdapter(api_key, api_base, default_model, <<>>, provider_name)
    /\ env' = InitEnvOf(env, api_key, api_base, default_model, provider_name)
    /\ litellm' = InitLitellmOf(litellm, api_base)
    /\ cons' = [n |-> cons.n + 1,
                inputs |-> <<api_key, api_base, default_model, provider_name>>,
                before |-> env,
                repeated |-> /\ cons.n > 0
                             /\ cons.inputs = <<api_key, api_base,
                                                default_model, provider_name>>]
    /\ UNCHANGED <<calls, probe>>

(***************************************************************************)
(* The resolver functions applied to chosen inputs.                         *)
(***************************************************************************)
NoProbe ==
    [stage |-> "none", gateway |-> NoSpec, model |-> <<>>, once |-> <<>>,
     twice |-> <<>>, kwargs |-> <<>>]

ProbeKwargs(model) ==
    [model |-> model, messages |-> Messages, max_tokens |-> DefaultMaxTokens,
     temperature |-> DefaultTemperature, stream |-> FALSE]

ProbeResolve ==
    /\ probe.stage = "input"
    /\ probe' = [probe EXCEPT !.stage = "resolved",
                              !.once = ResolveModel(probe.gateway, probe.model)]
    /\ UNCHANGED <<env, litellm, adapter, cons, calls>>

ProbeResolveAgain ==
    /\ probe.stage = "resolved"
    /\ probe' = [probe EXCEPT !.stage = "resolved twice",
                              !.twice = ResolveModel(probe.gateway, probe.once)]
    /\ UNCHANGED <<env, litellm, adapter, cons, calls>>

ProbeOverrides ==
    /\ probe.stage = "input"
    /\ probe' = [probe EXCEPT
                    !.stage = "overridden",
                    !.kwargs = ApplyModelOverrides(probe.gateway, probe.model,
                                                   ProbeKwargs(probe.model))]
    /\ UNCHANGED <<env, litellm, adapter, cons, calls>>

(***************************************************************************)
(* chat.  A call goes idle -> awaiting (the transport is invoked) ->        *)
(* done, through streaming when the route is the stream reassembler.        *)
(***************************************************************************)
NoResponse ==
    [content |-> NoneVal, tool_calls |-> <<>>, finish_reason |-> "None",
     usage |-> NoUsage, reasoning_content |-> NoneVal]

NoResult ==
    [content |-> NoneVal, tool_calls |-> <<>>, finish_reason |-> "",
     usage |-> NoUsage, reasoning_content |-> NoneVal]

NoArgs ==
    [model |-> NoneVal, messages |-> <<>>, tools |-> NoneVal,
     max_tokens |-> DefaultMaxTokens, temperature |-> DefaultTemperature]

\* a call: its place in chat (pc), what it was asked (args), what it handed
\* to the transport (kwargs, route, invoked), the response the transport
\* serves and how much of it the stream has delivered (resp, cpos, tpos, tann,
\* fsent, usent), the chunks delivered (sent), the accumulators of the
\* reassembler (acc), and the outcome: the result returned, whether an
\* exception left chat, which code produced the result, and the text of the
\* exception chat caught (error, empty when it caught none), and
\* whether the caller cancelled the call while it was suspended (cancelled)
IdleCall ==
    [pc |-> "idle", args |-> NoArgs, kwargs |-> <<>>, route |-> "none",
     invoked |-> 0, resp |-> NoResponse, cpos |-> 0, tpos |-> <<>>,
     tann |-> <<>>, fsent |-> FALSE, usent |-> FALSE, sent |-> <<>>,
     acc |-> InitAcc, result |-> NoResult, returned |-> FALSE,
     raised |-> FALSE, source |-> "none", error |-> <<>>,
     cancelled |-> FALSE]

OnExceptionPartial(call, e) ==
    [call EXCEPT !.pc = "done", !.returned = TRUE, !.source = "error",
                 !.result = [Reassemble(call.acc) EXCEPT !.finish_reason = "error"]]

\* except Exception as e: the error result is returned
OnException(call, e) ==
    [call EXCEPT !.pc = "done", !.returned = TRUE, !.source = "error",
                 !.result = ErrorResult(e)]

OnCancelCaught(call) ==
    [call EXCEPT !.pc = "done", !.returned = TRUE, !.source = "error",
                 !.result = ErrorResult(<<>>)]

\* CancelledError is raised at the await where the call is suspended.  It is
\* a BaseException and no Exception, so the except clause of chat does not
\* match: it leaves chat, nothing is returned, and the locals of the frame
\* (the accumulators of the reassembler) are gone
OnCancel(call) ==
    [call EXCEPT !.pc = "cancelled", !.raised = TRUE, !.acc = InitAcc]

\* chat up to its first await: the call arguments, the route, the transport
\* invoked once
StartCall(call, a, args) ==
    LET kw == BuildKwargs(a, args)
        force == ForceStream(a, kw.model)
    IN [call EXCEPT !.pc = "awaiting", !.args = args,
                    !.kwargs = IF force THEN [kw EXCEPT !.stream = TRUE] ELSE kw,
                    !.route = IF force THEN "stream" ELSE "direct",
                    !.invoked = @ + 1]

ChatStart(c, args) ==
    /\ calls[c].pc = "idle"
    /\ calls' = [calls EXCEPT ![c] = StartCall(@, adapter, args)]
    /\ UNCHANGED <<env, litellm, adapter, cons, probe>>

\* acompletion raises
TransportFail(c, e) ==
    /\ calls[c].pc = "awaiting"
    /\ calls' = [calls EXCEPT ![c] = [OnException(@, e) EXCEPT !.error = e]]
    /\ UNCHANGED <<env, litellm, adapter, cons, probe>>

\* the outcome of the normalizer or of the reassembler ends the call: its
\* result is returned, or the exception it raised is caught by chat
Finish(call, outcome, source) ==
    IF Raises(outcome)
    THEN [OnException(call, outcome.exception) EXCEPT !.error = outcome.exception]
    ELSE [call EXCEPT !.pc = "done", !.returned = TRUE, !.source = source,
                      !.result = outcome]

\* what acompletion returned to the direct route for the response resp
Served(call) == IF call.kwargs.stream THEN StreamOf(call.resp) ELSE call.resp

\* acompletion returns the response r (its chunks when the call arguments
\* hold stream=True): it is parsed and returned
TransportReturn(c, r) ==
    /\ calls[c].pc = "awaiting"
    /\ calls[c].route = "direct"
    /\ calls' = [calls EXCEPT ![c] =
                    Finish([@ EXCEPT !.resp = r],
                           ParseResponse(Served([@ EXCEPT !.resp = r])), "parse")]
    /\ UNCHANGED <<env, litellm, adapter, cons, probe>>

StreamOpenSharedAcc(c, r) ==
    /\ calls[c].pc = "awaiting"
    /\ calls[c].route = "stream"
    /\ calls' = [calls EXCEPT ![c] =
                    [@ EXCEPT !.pc = "streaming", !.resp = r, !.cpos = 0,
                              !.tpos = [i \in 1..Len(r.tool_calls) |-> 0],
                              !.tann = [i \in 1..Len(r.tool_calls) |-> FALSE],
                              !.acc = IF \E d \in DOMAIN calls :
                                           d # c /\ calls[d].pc = "streaming"
                                      THEN calls[CHOOSE d \in DOMAIN calls :
                                                    d # c /\ calls[d].pc = "streaming"].acc
                                      ELSE InitAcc]]
    /\ UNCHANGED <<env, litellm, adapter, cons, probe>>

\* acompletion returns a stream that will deliver the response r in chunks
StreamOpen(c, r) ==
    /\ calls[c].pc = "awaiting"
    /\ calls[c].route = "stream"
    /\ calls' = [calls EXCEPT ![c] =
                    [@ EXCEPT !.pc = "streaming", !.resp = r, !.cpos = 0,
                              !.tpos = [i \in 1..Len(r.tool_calls) |-> 0],
                              !.tann = [i \in 1..Len(r.tool_calls) |-> FALSE],
                              !.acc = InitAcc]]
    /\ UNCHANGED <<env, litellm, adapter, cons, probe>>

\* the lengths the next fragment of an argument text may have when rest
\* characters are left: any length up to MaxPiece, or all of a longer rest
Pieces(rest) == IF rest <= MaxPiece THEN 0..rest ELSE {0, rest}

\* what of the response's content the stream has not delivered yet
ContentLeft(call) ==
    IF call.resp.content = NoneVal THEN 0
    ELSE Len(call.resp.content) - call.cpos

\* the next chunk: the next k characters of the content, for tool call t (if
\* any) its id and name on its first fragment and the next j characters of
\* its arguments, the finish reason if f, the usage if u
NextChunk(call, k, t, j, f, u) ==
    [content |-> IF k = 0 THEN NoneVal
                 ELSE SubSeq(call.resp.content, call.cpos + 1, call.cpos + k),
     tool_calls |->
         IF t = 0 THEN <<>>
         ELSE << [index |-> t - 1,
                  id |-> IF call.tann[t] THEN "None"
                         ELSE call.resp.tool_calls[t].id,
                  name |-> IF call.tann[t] THEN "None"
                           ELSE call.resp.tool_calls[t].name,
                  arguments |->
                      IF j = 0 THEN NoneVal
                      ELSE SubSeq(call.resp.tool_calls[t].arguments,
                                  call.tpos[t] + 1, call.tpos[t] + j)] >>,
     finish_reason |-> IF f THEN call.resp.finish_reason ELSE "None",
     usage |-> IF u THEN call.resp.usage ELSE NoUsage]

\* the stream delivers one chunk and the loop body runs on it
StreamChunk(c) ==
    LET call == calls[c]
    IN /\ call.pc = "streaming"
       /\ Len(call.sent) < MaxChunks
       /\ \E k \in 0..ContentLeft(call), t \in 0..Len(call.resp.tool_calls),
             f \in BOOLEAN, u \in BOOLEAN :
            \E j \in Pieces(IF t = 0 THEN 0
                            ELSE Len(call.resp.tool_calls[t].arguments)
                                 - call.tpos[t]) :
               /\ f => ~call.fsent /\ TruthyTag(call.resp.finish_reason)
               /\ u => ~call.usent /\ call.resp.usage # NoUsage
               /\ t # 0 => ~call.tann[t] \/ j > 0
               /\ k > 0 \/ t # 0 \/ f \/ u
               /\ calls' = [calls EXCEPT ![c] =
                     [@ EXCEPT
                        !.cpos = @ + k,
                        !.tpos = [i \in DOMAIN @ |-> IF i = t THEN @[i] + j ELSE @[i]],
                        !.tann = [i \in DOMAIN @ |-> @[i] \/ i = t],
                        !.fsent = @ \/ f,
                        !.usent = @ \/ u,
                        !.sent = Append(@, NextChunk(call, k, t, j, f, u)),
                        !.acc = AccChunk(@, NextChunk(call, k, t, j, f, u))]]
       /\ UNCHANGED <<env, litellm, adapter, cons, probe>>

\* the stream raises while the next chunk is awaited
StreamFail(c, e) ==
    /\ calls[c].pc = "streaming"
    /\ calls' = [calls EXCEPT ![c] = [OnException(@, e) EXCEPT !.error = e]]
    /\ UNCHANGED <<env, litellm, adapter, cons, probe>>

\* the caller cancels the call while it awaits the transport or the next
\* chunk
Cancel(c) ==
    /\ calls[c].pc \in {"awaiting", "streaming"}
    /\ calls' = [calls EXCEPT ![c] = [OnCancel(@) EXCEPT !.cancelled = TRUE]]
    /\ UNCHANGED <<env, litellm, adapter, cons, probe>>

\* the stream has delivered all of the response
Delivered(call) ==
    /\ ContentLeft(call) = 0
    /\ \A t \in 1..Len(call.resp.tool_calls) :
          /\ call.tann[t]
          /\ call.tpos[t] = Len(call.resp.tool_calls[t].arguments)
    /\ call.fsent \/ ~TruthyTag(call.resp.finish_reason)
    /\ call.usent \/ call.resp.usage = NoUsage

\* the stream ends: the result is reassembled and returned
StreamEnd(c) ==
    /\ calls[c].pc = "streaming"
    /\ Delivered(calls[c])
    /\ calls' = [calls EXCEPT ![c] =
                    Finish(@, Reassemble(calls[c].acc), "reassemble")]
    /\ UNCHANGED <<env, litellm, adapter, cons, probe>>

(***************************************************************************)
(* What the transport may answer, and what chat may be asked.               *)
(***************************************************************************)
Answer == <<"a", "n", "s", "w", "e", "r">>
\* {"a":1}
ArgsA1 == <<"{", "\"", "a", "\"", ":", "1", "}">>
\* {"  (no JSON)
ArgsOpen == <<"{", "\"">>
\* an integer of one digit more than int() converts
ArgsLong == [i \in 1..(IntMaxStrDigits + 1) |-> "1"]

Response(content, tool_calls, finish_reason, usage) ==
    [content |-> content, tool_calls |-> tool_calls,
     finish_reason |-> finish_reason, usage |-> usage,
     reasoning_content |-> NoneVal]

ToolCall(id, name, arguments) ==
    [id |-> id, name |-> name, arguments |-> arguments]

Responses ==
    { \* a thinking block, then the answer
      Response(ThinkOpen \o <<"x">> \o ThinkClose \o Answer, <<>>, "stop", NoUsage),
      \* nothing but a thinking block; no finish reason reported
      Response(ThinkOpen \o <<"x", "\n">> \o ThinkClose, <<>>, "None", NoUsage),
      \* empty content
      Response(<<>>, <<>>, "stop", NoUsage),
      \* no content, one tool call with JSON arguments, usage reported
      Response(NoneVal, <<ToolCall("call_1", "f", ArgsA1)>>, "tool_calls",
               <<1, 2, 3>>),
      \* two tool calls, the second with arguments that are no JSON
      Response(NoneVal,
               <<ToolCall("call_1", "f", ArgsA1),
                 ToolCall("call_2", "g", ArgsOpen)>>, "tool_calls", NoUsage),
      \* a tool call with empty arguments
      Response(NoneVal, <<ToolCall("call_1", "f", <<>>)>>, "tool_calls", NoUsage),
      \* a tool call whose arguments are the JSON literal null
      Response(NoneVal, <<ToolCall("call_1", "f", JsonNull)>>, "tool_calls", NoUsage),
      \* a tool call whose arguments are an integer int() refuses
      Response(NoneVal, <<ToolCall("call_1", "f", ArgsLong)>>, "tool_calls", NoUsage)
    }

\* the constructions the chat specification starts from
ChatAdapters ==
    { NewAdapter(<<"key1">>, NoneVal, <<"k", "2">>, <<"X-App">>, "None"),
      NewAdapter(<<"key1">>, <<"base1">>, <<"k">>, <<>>, "tamu"),
      NewAdapter(NoneVal, NoneVal, <<"g">>, <<>>, "hub"),
      NewAdapter(NoneVal, NoneVal, <<"g">>, <<>>, "ov") }

ChatArgs ==
    { [model |-> m, messages |-> Messages, tools |-> t,
       max_tokens |-> DefaultMaxTokens, temperature |-> DefaultTemperature] :
        m \in {NoneVal, <<"2">>}, t \in {NoneVal, <<"tool">>} }

(***************************************************************************)
(* The chat specification: one adapter, constructed in a fresh              *)
(* environment, and the calls made on it.                                   *)
(***************************************************************************)
Init ==
    /\ adapter \in ChatAdapters
    /\ env = InitEnvOf([v \in EnvNames |-> Unset], adapter.api_key,
                       adapter.api_base, adapter.default_model,
                       adapter.gateway.name)
    /\ litellm = InitLitellmOf(FreshLitellm, adapter.api_base)
    /\ cons = NoCons
    /\ calls = [c \in {1} |-> IdleCall]
    /\ probe = NoProbe

Next ==
    \/ \E c \in DOMAIN calls, args \in ChatArgs : ChatStart(c, args)
    \/ \E c \in DOMAIN calls, e \in Errors : TransportFail(c, e)
    \/ \E c \in DOMAIN calls, r \in Responses : TransportReturn(c, r)
    \/ \E c \in DOMAIN calls, r \in Responses : StreamOpen(c, r)
    \/ \E c \in DOMAIN calls : StreamChunk(c)
    \/ \E c \in DOMAIN calls, e \in Errors : StreamFail(c, e)
    \/ \E c \in DOMAIN calls : StreamEnd(c)
    \/ \E c \in DOMAIN calls : Cancel(c)

Spec == Init /\ [][Next]_vars

(***************************************************************************)
(* The stream specification: one call on an adapter whose gateway forces    *)
(* streaming, and a transport that may deliver any chunks: fragments whose  *)
(* indices arrive in any order, with or without id and name, finish         *)
(* reasons and usage reported any number of times.                          *)
(***************************************************************************)
Fragment(index, id, name, arguments) ==
    [index |-> index, id |-> id, name |-> name, arguments |-> arguments]

Chunk(content, tool_calls, finish_reason, usage) ==
    [content |-> content, tool_calls |-> tool_calls,
     finish_reason |-> finish_reason, usage |-> usage]

\* an id and a name that are absent, empty, or given
FragmentNames ==
    { <<"None", "None">>, <<"", "f">>, <<"call_1", "">>, <<"call_2", "g">> }

\* a usage whose completion count is None
UsagePartial == <<4, -1, 6>>

Chunks ==
    { Chunk(t, <<>>, "None", NoUsage) : t \in {<<"a">>, <<>>} }
    \cup { Chunk(NoneVal, <<Fragment(i, n[1], n[2], a)>>, "None", NoUsage) :
             i \in {0, 1}, n \in FragmentNames, a \in {NoneVal, <<"1">>} }
    \cup { Chunk(NoneVal,
                 <<Fragment(1, "call_2", "g", <<"1">>),
                   Fragment(0, "call_1", "f", <<"1">>)>>, "None", NoUsage) }
    \cup { Chunk(NoneVal, <<>>, f, NoUsage) : f \in {"", "length", "stop"} }
    \cup { Chunk(NoneVal, <<>>, "None", u) : u \in {<<1, 2, 3>>, UsagePartial} }

\* the stream delivers a chunk and the loop body runs on it
StreamFeed(c, chunk) ==
    /\ calls[c].pc = "streaming"
    /\ Len(calls[c].sent) < MaxChunks
    /\ calls' = [calls EXCEPT ![c] =
                    [@ EXCEPT !.sent = Append(@, chunk),
                              !.acc = AccChunk(@, chunk)]]
    /\ UNCHANGED <<env, litellm, adapter, cons, probe>>

StreamAdapter == NewAdapter(<<"key1">>, <<"base1">>, <<"k">>, <<>>, "tamu")

PlainArgs ==
    [model |-> NoneVal, messages |-> Messages, tools |-> NoneVal,
     max_tokens |-> DefaultMaxTokens, temperature |-> DefaultTemperature]

InitStream ==
    /\ adapter = StreamAdapter
    /\ env = InitEnvOf([v \in EnvNames |-> Unset], adapter.api_key,
                       adapter.api_base, adapter.default_model,
                       adapter.gateway.name)
    /\ litellm = InitLitellmOf(FreshLitellm, adapter.api_base)
    /\ cons = NoCons
    /\ calls = [c \in {1} |-> IdleCall]
    /\ probe = NoProbe

NextStream ==
    \/ \E c \in DOMAIN calls : ChatStart(c, PlainArgs)
    \/ \E c \in DOMAIN calls : StreamOpen(c, NoResponse)
    \/ \E c \in DOMAIN calls, chunk \in Chunks : StreamFeed(c, chunk)
    \/ \E c \in DOMAIN calls, e \in Errors : StreamFail(c, e)
    \/ \E c \in DOMAIN calls : StreamEnd(c)
    \/ \E c \in DOMAIN calls : Cancel(c)

SpecStream == InitStream /\ [][NextStream]_vars

(***************************************************************************)
(* The concurrent specification: two calls on one adapter, their steps      *)
(* interleaved at the awaits in any order.                                  *)
(***************************************************************************)
\* a standard adapter: its default model is served directly, the model "2"
\* by a provider that forces streaming
PairAdapters ==
    { NewAdapter(<<"key1">>, NoneVal, <<"k", "2">>, <<"X-App">>, "None") }

PairArgs ==
    { PlainArgs,
      [PlainArgs EXCEPT !.model = <<"2">>, !.tools = <<"tool">>] }

PairResponses ==
    { Response(<<"h">>, <<ToolCall("call_1", "f", <<"1">>)>>, "stop", NoUsage),
      Response(NoneVal, <<>>, "None", <<1, 2, 3>>) }

InitPair ==
    /\ adapter \in PairAdapters
    /\ env = InitEnvOf([v \in EnvNames |-> Unset], adapter.api_key,
                       adapter.api_base, adapter.default_model,
                       adapter.gateway.name)
    /\ litellm = InitLitellmOf(FreshLitellm, adapter.api_base)
    /\ cons = NoCons
    /\ calls = [c \in {1, 2} |-> IdleCall]
    /\ probe = NoProbe

NextPair ==
    \/ \E c \in DOMAIN calls, args \in PairArgs : ChatStart(c, args)
    \/ \E c \in DOMAIN calls, e \in Errors : TransportFail(c, e)
    \/ \E c \in DOMAIN calls, r \in PairResponses : TransportReturn(c, r)
    \/ \E c \in DOMAIN calls, r \in PairResponses : StreamOpen(c, r)
    \/ \E c \in DOMAIN calls : StreamChunk(c)
    \/ \E c \in DOMAIN calls, e \in Errors : StreamFail(c, e)
    \/ \E c \in DOMAIN calls : StreamEnd(c)
    \/ \E c \in DOMAIN calls : Cancel(c)

SpecPair == InitPair /\ [][NextPair]_vars

(***************************************************************************)
(* The call-argument specification: calls with any limits, on adapters      *)
(* configured with or without credential, base URL and headers, behind a    *)
(* gateway whose override rule names every call argument.                   *)
(***************************************************************************)
ArgsAdapters ==
    { NewAdapter(k, b, d, h, p) :
        k \in ApiKeys, b \in ApiBases, d \in DefaultModels,
        h \in {<<>>, <<"X-App">>}, p \in {"None", "ov"} }

ArgsInputs ==
    { [model |-> m, messages |-> Messages, tools |-> t, max_tokens |-> mt,
       temperature |-> te] :
        m \in {NoneVal, <<"k">>, <<"g">>, <<"2">>}, t \in {NoneVal, <<"tool">>},
        mt \in {DefaultMaxTokens, 100}, te \in {DefaultTemperature, 0} }

InitArgs ==
    /\ adapter \in ArgsAdapters
    /\ env = InitEnvOf([v \in EnvNames |-> Unset], adapter.api_key,
                       adapter.api_base, adapter.default_model,
                       adapter.gateway.name)
    /\ litellm = InitLitellmOf(FreshLitellm, adapter.api_base)
    /\ cons = NoCons
    /\ calls = [c \in {1} |-> IdleCall]
    /\ probe = NoProbe

NextArgs ==
    \/ \E c \in DOMAIN calls, args \in ArgsInputs : ChatStart(c, args)
    \/ \E c \in DOMAIN calls, e \in Errors : TransportFail(c, e)
    \/ \E c \in DOMAIN calls : TransportReturn(c, NoResponse)
    \/ \E c \in DOMAIN calls : StreamOpen(c, NoResponse)
    \/ \E c \in DOMAIN calls : StreamEnd(c)
    \/ \E c \in DOMAIN calls : Cancel(c)

SpecArgs == InitArgs /\ [][NextArgs]_vars

(***************************************************************************)
(* The environment specification: a sequence of constructions in an         *)
(* environment that may already hold values.                                *)
(***************************************************************************)
InitialEnvs ==
    { [v \in EnvNames |-> Unset],
      [v \in EnvNames |-> Preset],
      [v \in EnvNames |-> IF v = "MS_BASE" THEN Unset ELSE Preset],
      [v \in EnvNames |-> IF v = "GP_KEY" THEN Preset ELSE Unset] }

InitEnv ==
    /\ env \in InitialEnvs
    /\ litellm = FreshLitellm
    /\ adapter = NoAdapter
    /\ cons = NoCons
    /\ calls = [c \in {1} |-> IdleCall]
    /\ probe = NoProbe

NextEnv ==
    \E k \in ApiKeys, b \in ApiBases, m \in DefaultModels, p \in ProviderNames :
        Construct(k, b, m, p)

SpecEnv == InitEnv /\ [][NextEnv]_vars

(***************************************************************************)
(* The resolver specification: _resolve_model and _apply_model_overrides    *)
(* on every model name up to MaxModelLen, with and without a gateway.       *)
(***************************************************************************)
InitResolve ==
    /\ env = [v \in EnvNames |-> Unset]
    /\ litellm = FreshLitellm
    /\ adapter = NoAdapter
    /\ cons = NoCons
    /\ calls = [c \in {1} |-> IdleCall]
    /\ probe \in { [NoProbe EXCEPT !.stage = "input", !.gateway = g, !.model = m] :
                     g \in Gateways, m \in ModelNames }

NextResolve == ProbeResolve \/ ProbeResolveAgain \/ ProbeOverrides

SpecResolve == InitResolve /\ [][NextResolve]_vars

(***************************************************************************)
(* Properties of the chat specification (Spec).                             *)
(***************************************************************************)
Done(c) == calls[c].pc = "done"
Failed(c) == calls[c].error # <<>>

\* C1: chat never raises to the caller.  Every finished call has returned a
\* result and no exception has left chat; when chat caught an exception (the
\* transport raised, at the invocation or while a chunk was awaited, or the
\* normalizer or the reassembler raised), the result has finish_reason
\* "error", its content contains the failure text, and it carries no tool
\* call and none of the content accumulated before the failure.
C1_NeverRaises ==
    \A c \in DOMAIN calls :
        Done(c) =>
            /\ calls[c].returned
            /\ ~calls[c].raised
            /\ Failed(c) =>
                  /\ calls[c].result.finish_reason = "error"
                  /\ Contains(calls[c].result.content, calls[c].error)
                  /\ calls[c].result.tool_calls = <<>>
                  /\ \A i \in 1..Len(calls[c].acc.content_parts) :
                        ~Contains(calls[c].result.content,
                                  calls[c].acc.content_parts[i])

\* a stream failed after content had been accumulated
C1_Witness ==
    \E c \in DOMAIN calls :
        /\ Done(c) /\ Failed(c)
        /\ calls[c].route = "stream"
        /\ calls[c].acc.content_parts # <<>>
        /\ calls[c].result.finish_reason = "error"

\* the call returned what the stream reassembler built
Reassembled(c) == Done(c) /\ calls[c].source = "reassemble"

\* the call returned what the response parser built
ParsedDirect(c) == Done(c) /\ calls[c].source = "parse"

\* C2: non-streaming parse and streaming reassembly of the same logical
\* response agree.  Whenever a stream that delivered a response in chunks,
\* however split, has been reassembled, the result has the content, the tool
\* calls (id, name, arguments, order) and the finish reason that
\* _parse_response gives for the whole response.
C2_StreamEqualsParse ==
    \A c \in DOMAIN calls :
        Reassembled(c) =>
            /\ calls[c].result.content = ParseResponse(calls[c].resp).content
            /\ calls[c].result.tool_calls = ParseResponse(calls[c].resp).tool_calls
            /\ calls[c].result.finish_reason
                   = ParseResponse(calls[c].resp).finish_reason

\* a stream delivered a response whose content is the empty string: the
\* reassembler returned null where the parser returns the empty string
C2_Witness ==
    \E c \in DOMAIN calls :
        /\ Reassembled(c)
        /\ calls[c].resp.content = <<>>
        /\ calls[c].result.content = NoneVal
        /\ ParseResponse(calls[c].resp).content = <<>>

\* the argument texts, in arrival order, of the fragments the chunks carry
\* for tool-call index idx
RECURSIVE ArgFragments(_, _)
ArgFragments(chunks, idx) ==
    IF chunks = <<>> THEN <<>>
    ELSE LET tcs == Head(chunks).tool_calls
             here == [i \in 1..Len(tcs) |->
                         IF tcs[i].index = idx /\ Truthy(tcs[i].arguments)
                         THEN <<tcs[i].arguments>> ELSE <<>>]
         IN Join(here) \o ArgFragments(Tail(chunks), idx)

\* the tool-call indices the chunks mention
Indices(chunks) ==
    UNION { { chunks[n].tool_calls[i].index : i \in 1..Len(chunks[n].tool_calls) } :
              n \in 1..Len(chunks) }

\* C6: during reassembly the argument text held for a tool-call index is the
\* concatenation, in arrival order, of the argument fragments delivered for
\* that index, whatever was delivered for other indices in between; the text
\* {"a": then 1} delivered for one index is returned as the arguments {"a": 1}.
C6_ArgumentsConcatenate ==
    \A c \in DOMAIN calls :
        calls[c].route = "stream" /\ ~calls[c].cancelled =>
            /\ DOMAIN calls[c].acc.tool_calls_raw = Indices(calls[c].sent)
            /\ \A idx \in Indices(calls[c].sent) :
                  calls[c].acc.tool_calls_raw[idx].arguments
                      = Join(ArgFragments(calls[c].sent, idx))
            /\ Reassembled(c) =>
                  \A i \in 1..Len(calls[c].result.tool_calls) :
                      ArgFragments(calls[c].sent, i - 1)
                          = <<SubSeq(ArgsA1, 1, 5), SubSeq(ArgsA1, 6, 7)>>
                      => calls[c].result.tool_calls[i].arguments = Parsed(ArgsA1)

\* {"a": and 1} arrived for index 0 with a fragment for index 1 in between,
\* and the call returned {"a": 1} for it
C6_Witness ==
    \E c \in DOMAIN calls :
        /\ Reassembled(c)
        /\ Len(calls[c].sent) = 3
        /\ ArgFragments(calls[c].sent, 0)
               = <<SubSeq(ArgsA1, 1, 5), SubSeq(ArgsA1, 6, 7)>>
        /\ calls[c].sent[2].tool_calls # <<>>
        /\ calls[c].sent[2].tool_calls[1].index = 1
        /\ calls[c].result.tool_calls[1].arguments = Parsed(ArgsA1)

\* C7: a tool call whose argument text does not parse as JSON is returned
\* with the arguments {"raw": text}, by the parser and by the reassembler,
\* and the result has one tool call per tool call of the response.
C7_RawFallback ==
    \A c \in DOMAIN calls :
        ParsedDirect(c) \/ Reassembled(c) =>
            /\ Len(calls[c].result.tool_calls) = Len(calls[c].resp.tool_calls)
            /\ \A i \in 1..Len(calls[c].resp.tool_calls) :
                  ~JsonLoads(calls[c].resp.tool_calls[i].arguments).ok
                  => calls[c].result.tool_calls[i].arguments
                         = RawArgs(calls[c].resp.tool_calls[i].arguments)

\* a stream delivered a tool call with an empty argument text: the
\* reassembler returned the empty mapping for it, the parser {"raw": ""}
C7_Witness ==
    \E c \in DOMAIN calls :
        /\ Reassembled(c)
        /\ Len(calls[c].resp.tool_calls) = 1
        /\ calls[c].resp.tool_calls[1].arguments = <<>>
        /\ calls[c].result.tool_calls[1].arguments = EmptyMapping
        /\ ParseResponse(calls[c].resp).tool_calls[1].arguments = RawArgs(<<>>)

\* the content left of a text once its thinking blocks are removed: null
\* when nothing is left
Stripped(text) ==
    IF text = NoneVal \/ Strip(RemoveThink(text)) = <<>> THEN NoneVal
    ELSE Strip(RemoveThink(text))

\* C8: the returned content is the response's content without its thinking
\* blocks, null (never the empty string) when nothing is left, and the
\* reassembler strips the concatenation of the chunks' content.
C8_ThinkingStripped ==
    \A c \in DOMAIN calls :
        ParsedDirect(c) \/ Reassembled(c) =>
            /\ calls[c].result.content # <<>>
            /\ calls[c].result.content = Stripped(calls[c].resp.content)
            /\ Reassembled(c) =>
                  calls[c].result.content
                      = Stripped(Join(calls[c].acc.content_parts))

\* the parser was given a response whose content is the empty string and
\* returned the empty string as the content
C8_Witness ==
    \E c \in DOMAIN calls :
        /\ ParsedDirect(c)
        /\ calls[c].resp.content = <<>>
        /\ calls[c].result.content = <<>>

\* C10: a call invokes the transport at most once; when the effective
\* descriptor of the resolved model forces streaming the transport is called
\* with stream = true and a result comes from the reassembler, otherwise it
\* is called with stream = false and a result comes from the parser.
C10_RouteByDescriptor ==
    \A c \in DOMAIN calls :
        /\ calls[c].invoked <= 1
        /\ calls[c].pc # "idle" =>
              /\ calls[c].invoked = 1
              /\ IF EffectiveSpec(adapter.gateway, calls[c].kwargs.model).force_stream
                 THEN /\ calls[c].kwargs.stream = TRUE
                      /\ calls[c].route = "stream"
                      /\ Done(c) /\ ~Failed(c) =>
                            /\ calls[c].source = "reassemble"
                            /\ calls[c].result = Reassemble(calls[c].acc)
                 ELSE /\ calls[c].kwargs.stream = FALSE
                      /\ calls[c].route = "direct"
                      /\ calls[c].sent = <<>>
                      /\ Done(c) /\ ~Failed(c) =>
                            /\ calls[c].source = "parse"
                            /\ calls[c].result = ParseResponse(calls[c].resp)

\* a call whose descriptor does not force streaming and whose matched
\* override rule names stream: the transport was called once on the direct
\* route with stream = true, and the call returned the error result
C10_Witness ==
    \E c \in DOMAIN calls :
        /\ Done(c)
        /\ ~EffectiveSpec(adapter.gateway, calls[c].kwargs.model).force_stream
        /\ calls[c].route = "direct"
        /\ calls[c].invoked = 1
        /\ calls[c].kwargs.stream = TRUE
        /\ calls[c].result = ErrorResult(NoChoicesError)

(***************************************************************************)
(* Properties of the resolver specification (SpecResolve).                  *)
(***************************************************************************)
\* the model name matches a standard descriptor that has a prefix and starts
\* with none of its skip-prefixes
NeedsPrefix(model) ==
    /\ find_by_model(model) # NoSpec
    /\ find_by_model(model).litellm_prefix # <<>>
    /\ \A sp \in find_by_model(model).skip_prefixes : ~StartsWith(model, sp)

\* C3: in standard mode a model name that matches a descriptor with a prefix
\* and starts with none of its skip-prefixes resolves to <prefix>/<model>, and
\* resolving that output again leaves it unchanged.  The first half holds;
\* the second is violated: the standard branch tests the skip-prefixes only,
\* so an output that starts with none of the skip-prefixes of the descriptor
\* it matches is prefixed again.
C3_PrefixOnce ==
    probe.gateway = NoSpec /\ NeedsPrefix(probe.model) =>
        /\ probe.stage \in {"resolved", "resolved twice"} =>
              probe.once = find_by_model(probe.model).litellm_prefix
                               \o <<"/">> \o probe.model
        /\ probe.stage = "resolved twice" => probe.twice = probe.once

\* a model name was prefixed, and resolving the output put the same
\* descriptor's prefix before it a second time
C3_Witness ==
    /\ probe.stage = "resolved twice"
    /\ probe.gateway = NoSpec
    /\ NeedsPrefix(probe.model)
    /\ find_by_model(probe.once) = find_by_model(probe.model)
    /\ probe.once = find_by_model(probe.model).litellm_prefix
                        \o <<"/">> \o probe.model
    /\ probe.twice = find_by_model(probe.model).litellm_prefix
                         \o <<"/">> \o probe.once
    /\ probe.twice # probe.once

\* C4: in gateway mode with prefix-stripping, the resolved name depends only
\* on the last slash-delimited segment of the model name: it is what the last
\* segment alone resolves to, which is the gateway's prefix before the last
\* segment, also for a model name that starts with a skip-prefix of the
\* descriptor it would match in standard mode.
C4_GatewayLastSegment ==
    /\ probe.gateway # NoSpec
    /\ probe.gateway.strip_model_prefix
    /\ probe.stage \in {"resolved", "resolved twice"}
    => /\ probe.once = ResolveModel(probe.gateway, LastSegment(probe.model))
       /\ probe.once = IF probe.gateway.litellm_prefix # <<>>
                       THEN probe.gateway.litellm_prefix \o <<"/">>
                                \o LastSegment(probe.model)
                       ELSE LastSegment(probe.model)

\* a model name with more than one character before its last segment, that
\* starts with a skip-prefix of its standard descriptor, was resolved through
\* the stripping gateway
C4_Witness ==
    /\ probe.stage = "resolved"
    /\ probe.gateway = SpecHub
    /\ Len(probe.model) > Len(LastSegment(probe.model)) + 1
    /\ find_by_model(probe.model) # NoSpec
    /\ \E sp \in find_by_model(probe.model).skip_prefixes :
          StartsWith(probe.model, sp)
    /\ probe.once = <<"g", "/">> \o LastSegment(probe.model)

\* C5: apply_overrides applies at most one rule: the call arguments are those
\* given, updated by the first rule (in the descriptor's order) whose pattern
\* occurs in the lower-cased model name, and are unchanged when no rule
\* matches or no descriptor is found.
C5_FirstOverrideOnly ==
    probe.stage = "overridden" =>
        LET rules == EffectiveSpec(probe.gateway, probe.model).model_overrides
            hits == { i \in 1..Len(rules) :
                        Contains(Lower(probe.model), rules[i].pattern) }
            given == ProbeKwargs(probe.model)
        IN /\ DOMAIN probe.kwargs = DOMAIN given
           /\ \A k \in DOMAIN given :
                 probe.kwargs[k] =
                    IF \E i \in hits :
                          /\ \A j \in hits : i <= j
                          /\ k \in DOMAIN rules[i].overrides
                    THEN rules[CHOOSE i \in hits : \A j \in hits : i <= j]
                             .overrides[k]
                    ELSE given[k]

\* the model name matches the rules at positions 2 and 3 and not the one at
\* position 1: only rule 2 was applied
C5_Witness ==
    /\ probe.stage = "overridden"
    /\ probe.gateway = NoSpec
    /\ MatchingRules(find_by_model(probe.model), probe.model) = {2, 3}
    /\ probe.kwargs.temperature = 5
    /\ probe.kwargs.max_tokens = DefaultMaxTokens

(***************************************************************************)
(* Properties of the environment specification (SpecEnv).                   *)
(***************************************************************************)
\* what the last construction was given
ConsKey == cons.inputs[1]
ConsDefaultModel == cons.inputs[3]
ConsGateway == find_gateway(cons.inputs[4], cons.inputs[1], cons.inputs[2])

\* the variables that are the credential variable of some descriptor
CredentialVars == { PROVIDERS[i].env_key : i \in 1..Len(PROVIDERS) }

\* the extra variables of the descriptor the last construction used
ConsExtraVars ==
    LET spec == EffectiveSpec(ConsGateway, ConsDefaultModel)
    IN { spec.env_extras[i].name : i \in 1..Len(spec.env_extras) }

\* a standard-mode construction changes no credential variable that was set
StandardKeepsCredentials ==
    cons.n > 0 /\ ConsGateway = NoSpec =>
        \A v \in CredentialVars :
            cons.before[v] # Unset => env[v] = cons.before[v]

\* no construction changes an extra variable that was set
ExtrasKept ==
    cons.n > 0 =>
        \A v \in ConsExtraVars : cons.before[v] # Unset => env[v] = cons.before[v]

\* a construction with the inputs of the one before changes nothing
RepeatChangesNothing == cons.repeated => env = cons.before

\* C9 as stated: besides the three parts above, every gateway-mode
\* construction leaves the gateway's credential variable equal to the
\* credential it was given.
C9_AsStated ==
    /\ StandardKeepsCredentials
    /\ ExtrasKept
    /\ RepeatChangesNothing
    /\ cons.n > 0 /\ ConsGateway # NoSpec => env[ConsGateway.env_key] = ConsKey

\* C9, amended: a standard-mode construction never changes a credential
\* variable that is already set; a gateway-mode construction that is given a
\* credential leaves the gateway's credential variable equal to it (one given
\* no credential leaves the environment alone); no construction changes an
\* extra variable that is already set; repeating a construction with the same
\* inputs leaves the environment unchanged.
C9_EnvironmentRules ==
    /\ StandardKeepsCredentials
    /\ ExtrasKept
    /\ RepeatChangesNothing
    /\ cons.n > 0 /\ ConsGateway # NoSpec =>
          IF Truthy(ConsKey) THEN env[ConsGateway.env_key] = ConsKey
          ELSE env = cons.before

\* a gateway construction overwrote a credential variable that was set, and
\* the same construction, repeated, changed nothing
C9_Witness ==
    /\ cons.n = 2
    /\ cons.repeated
    /\ ConsGateway = SpecTamu
    /\ Truthy(ConsKey)
    /\ env["TAMU_KEY"] = ConsKey
    /\ env["GP_KEY"] = Preset

(***************************************************************************)
(* Cancellation (Spec).                                                     *)
(***************************************************************************)
\* C11: a call cancelled while it awaits the transport or the next chunk
\* returns no result: the cancellation leaves chat as it is raised, it is not
\* turned into an error result or a partial result, and the content and
\* tool-call arguments accumulated so far are discarded.
C11_CancelReturnsNothing ==
    \A c \in DOMAIN calls :
        calls[c].cancelled =>
            /\ calls[c].pc = "cancelled"
            /\ ~calls[c].returned
            /\ calls[c].raised
            /\ calls[c].result = NoResult
            /\ calls[c].source = "none"
            /\ calls[c].acc = InitAcc

\* a call was cancelled mid-stream, after a part of the argument text of a
\* tool call had arrived
C11_Witness ==
    \E c \in DOMAIN calls :
        /\ calls[c].cancelled
        /\ calls[c].route = "stream"
        /\ Len(calls[c].resp.tool_calls) = 1
        /\ Join(ArgFragments(calls[c].sent, 0)) = SubSeq(ArgsA1, 1, 5)
        /\ ~calls[c].returned

(***************************************************************************)
(* Properties of the stream specification (SpecStream).                     *)
(***************************************************************************)
\* where tool-call index idx stands in a call: absent, pending while chunks
\* arrive, finalized once the reassembled result holds it
IndexState(call, idx) ==
    IF call.pc = "streaming" /\ idx \in DOMAIN call.acc.tool_calls_raw
    THEN "pending"
    ELSE IF call.pc = "done" /\ call.source = "reassemble"
            /\ idx \in DOMAIN call.acc.tool_calls_raw
    THEN "finalized"
    ELSE "absent"

\* the position of idx in the ascending order of the indices seen
Rank(chunks, idx) == Cardinality({ j \in Indices(chunks) : j < idx }) + 1

\* the result lists one tool call per index seen, by ascending index
OnePerIndexAscending ==
    \A c \in DOMAIN calls :
        Reassembled(c) =>
            /\ Len(calls[c].result.tool_calls) = Cardinality(Indices(calls[c].sent))
            /\ \A idx \in Indices(calls[c].sent) :
                  /\ calls[c].result.tool_calls[Rank(calls[c].sent, idx)].id
                        = calls[c].acc.tool_calls_raw[idx].id
                  /\ calls[c].result.tool_calls[Rank(calls[c].sent, idx)].name
                        = calls[c].acc.tool_calls_raw[idx].name
                  /\ calls[c].result.tool_calls[Rank(calls[c].sent, idx)].arguments
                        = StreamArgs(calls[c].acc.tool_calls_raw[idx].arguments)

\* an index becomes pending only as a chunk that carries it is delivered,
\* finalized only from pending and only as the stream ends, and a finalized
\* index stays finalized
IndexSteps ==
    \A c \in DOMAIN calls : \A idx \in {0, 1} :
        LET before == IndexState(calls[c], idx)
            after == IndexState(calls'[c], idx)
        IN /\ before = "absent" /\ after # "absent" =>
                 /\ after = "pending"
                 /\ Len(calls'[c].sent) = Len(calls[c].sent) + 1
                 /\ idx \in Indices(<<calls'[c].sent[Len(calls'[c].sent)]>>)
           /\ before = "pending" /\ after = "finalized" =>
                 /\ calls[c].pc = "streaming" /\ calls'[c].pc = "done"
                 /\ calls'[c].sent = calls[c].sent
           /\ before = "finalized" => after = "finalized"

\* C12: after the chunk sequence ends the result holds exactly one tool call
\* per distinct tool-call index seen in the stream, in ascending index order
\* whatever the order of arrival, and each index goes absent -> pending ->
\* finalized, by the delivery of a chunk and by the end of the stream only.
C12_OnePerIndexInOrder == []OnePerIndexAscending /\ [][IndexSteps]_vars

\* index 1 arrived before index 0 and the result lists index 0 first
C12_Witness ==
    \E c \in DOMAIN calls :
        /\ Reassembled(c)
        /\ Len(calls[c].sent) = 3
        /\ calls[c].sent[1].tool_calls # <<>>
        /\ calls[c].sent[1].tool_calls[1].index = 1
        /\ calls[c].sent[1].tool_calls[1].id = "call_2"
        /\ calls[c].sent[2].tool_calls # <<>>
        /\ calls[c].sent[2].tool_calls[1].index = 0
        /\ calls[c].sent[2].tool_calls[1].id = "call_1"
        /\ Len(calls[c].result.tool_calls) = 2
        /\ calls[c].result.tool_calls[1].id = "call_1"
        /\ calls[c].result.tool_calls[2].id = "call_2"

\* the call is in the reassembler: consuming chunks, or returned from it
InReassembler(c) == calls[c].pc = "streaming" \/ Reassembled(c)

\* the positions of the chunks that report a finish reason
FinishAt(chunks) ==
    { n \in 1..Len(chunks) : TruthyTag(chunks[n].finish_reason) }

\* the last finish reason the chunks report, "stop" when they report none
LastFinish(chunks) ==
    IF FinishAt(chunks) = {} THEN "stop"
    ELSE chunks[CHOOSE n \in FinishAt(chunks) :
                   \A k \in FinishAt(chunks) : k <= n].finish_reason

\* C13: the finish reason of a reassembled stream is the last non-empty
\* finish reason the chunks reported, which a later chunk without one does
\* not erase, and is "stop" when no chunk reported one, also when no chunk
\* arrived at all.
C13_LastFinishReason ==
    \A c \in DOMAIN calls :
        /\ InReassembler(c) =>
              calls[c].acc.finish_reason = LastFinish(calls[c].sent)
        /\ Reassembled(c) =>
              calls[c].result.finish_reason = LastFinish(calls[c].sent)

\* "length", then "stop", then a chunk with an empty finish reason: "stop"
C13_Witness ==
    \E c \in DOMAIN calls :
        /\ Reassembled(c)
        /\ Len(calls[c].sent) = 3
        /\ calls[c].sent[1].finish_reason = "length"
        /\ calls[c].sent[2].finish_reason = "stop"
        /\ calls[c].sent[3].finish_reason = ""
        /\ calls[c].result.finish_reason = "stop"

\* the positions of the chunks that report usage
UsageAt(chunks) == { n \in 1..Len(chunks) : chunks[n].usage # NoUsage }

\* the counts of the last chunk that reports usage, a count of None read as
\* 0; the empty mapping when no chunk reports usage
LastUsage(chunks) ==
    IF UsageAt(chunks) = {} THEN NoUsage
    ELSE LET u == chunks[CHOOSE n \in UsageAt(chunks) :
                            \A k \in UsageAt(chunks) : k <= n].usage
         IN [i \in 1..3 |-> IF u[i] < 0 THEN 0 ELSE u[i]]

\* C14: the usage of a reassembled stream comes from the chunks that report
\* usage only, the last of them overwriting what was captured before; it is
\* the empty mapping when no chunk reports usage, and a chunk without usage
\* does not reset it.
C14_LastUsage ==
    \A c \in DOMAIN calls :
        /\ InReassembler(c) => calls[c].acc.usage = LastUsage(calls[c].sent)
        /\ Reassembled(c) => calls[c].result.usage = LastUsage(calls[c].sent)

\* usage was reported twice, then a chunk without usage arrived: the second
\* report is returned
C14_Witness ==
    \E c \in DOMAIN calls :
        /\ Reassembled(c)
        /\ Len(calls[c].sent) = 3
        /\ calls[c].sent[1].usage = <<1, 2, 3>>
        /\ calls[c].sent[2].usage = UsagePartial
        /\ calls[c].sent[3].usage = NoUsage
        /\ calls[c].result.usage = <<4, 0, 6>>

\* the fragments the chunks carry for tool-call index idx, in arrival order
RECURSIVE FragmentsFor(_, _)
FragmentsFor(chunks, idx) ==
    IF chunks = <<>> THEN <<>>
    ELSE LET IsFor(tc) == tc.index = idx
         IN SelectSeq(Head(chunks).tool_calls, IsFor)
                \o FragmentsFor(Tail(chunks), idx)

\* the last non-empty id among the fragments, "" when none has one
LastId(frags) ==
    LET given == { n \in 1..Len(frags) : TruthyTag(frags[n].id) }
    IN IF given = {} THEN ""
       ELSE frags[CHOOSE n \in given : \A k \in given : k <= n].id

\* the last non-empty name among the fragments, "" when none has one
LastName(frags) ==
    LET given == { n \in 1..Len(frags) : TruthyTag(frags[n].name) }
    IN IF given = {} THEN ""
       ELSE frags[CHOOSE n \in given : \A k \in given : k <= n].name

\* C15: the id and the name held for a pending tool-call index are those of
\* the last fragment of that index that carried a non-empty id, respectively
\* name: a later non-empty value replaces an earlier or an empty one, and a
\* later fragment whose id or name is empty or absent erases nothing.
C15_IdNameKept ==
    \A c \in DOMAIN calls :
        InReassembler(c) =>
            \A idx \in DOMAIN calls[c].acc.tool_calls_raw :
                /\ calls[c].acc.tool_calls_raw[idx].id
                      = LastId(FragmentsFor(calls[c].sent, idx))
                /\ calls[c].acc.tool_calls_raw[idx].name
                      = LastName(FragmentsFor(calls[c].sent, idx))

\* index 0 received a name without an id, then an id without a name, then a
\* fragment with neither: the tool call is returned with that id and name
C15_Witness ==
    \E c \in DOMAIN calls :
        /\ Reassembled(c)
        /\ FragmentsFor(calls[c].sent, 0)
              = << Fragment(0, "", "f", NoneVal),
                   Fragment(0, "call_1", "", NoneVal),
                   Fragment(0, "None", "None", <<"1">>) >>
        /\ Len(calls[c].result.tool_calls) = 1
        /\ calls[c].result.tool_calls[1].id = "call_1"
        /\ calls[c].result.tool_calls[1].name = "f"

(***************************************************************************)
(* Properties of the concurrent specification (SpecPair).                   *)
(***************************************************************************)
\* the accumulators after the chunks, from fresh ones
RECURSIVE AccAll(_)
AccAll(chunks) ==
    IF chunks = <<>> THEN InitAcc
    ELSE AccChunk(AccAll(SubSeq(chunks, 1, Len(chunks) - 1)),
                  chunks[Len(chunks)])

\* what a call holds is determined by what it was asked and by what the
\* transport answered to it
OwnInputsOnly ==
    \A c \in DOMAIN calls :
        /\ calls[c].pc # "idle" =>
              LET kw == BuildKwargs(adapter, calls[c].args)
              IN calls[c].kwargs =
                     IF ForceStream(adapter, kw.model)
                     THEN [kw EXCEPT !.stream = TRUE] ELSE kw
        /\ calls[c].pc = "streaming" => calls[c].acc = AccAll(calls[c].sent)
        /\ Reassembled(c) => calls[c].result = Reassemble(AccAll(calls[c].sent))
        /\ ParsedDirect(c) => calls[c].result = ParseResponse(Served(calls[c]))
        /\ Done(c) /\ Failed(c) => calls[c].result = ErrorResult(calls[c].error)

\* a step of chat leaves the adapter, the environment and the litellm
\* settings as they are, and changes one call only
OneCallSteps ==
    /\ adapter' = adapter
    /\ env' = env
    /\ litellm' = litellm
    /\ \A c, d \in DOMAIN calls :
          c # d /\ calls'[c] # calls[c] => calls'[d] = calls[d]

\* C16: calls are independent under any interleaving.  A call builds its
\* call arguments and its accumulators fresh, no step of a call changes the
\* adapter configuration, the published environment or another call, and the
\* result of a call is determined by its own inputs and its own transport
\* response.
C16_CallsIndependent == []OwnInputsOnly /\ [][OneCallSteps]_vars

\* two streams on one adapter were consumed interleaved and returned
\* different results
C16_Witness ==
    /\ Reassembled(1) /\ Reassembled(2)
    /\ calls[1].sent # <<>> /\ calls[2].sent # <<>>
    /\ calls[1].resp # calls[2].resp
    /\ calls[1].result # calls[2].result
    /\ calls[1].result.tool_calls # <<>>
    /\ calls[2].result.tool_calls = <<>>

(***************************************************************************)
(* Properties of the call-argument specification (SpecArgs).                *)
(***************************************************************************)
\* the override mapping of the first rule of the effective descriptor whose
\* pattern occurs in the lower-cased resolved model; empty when none does
MatchedOverrides(gateway, resolved) ==
    LET rules == EffectiveSpec(gateway, resolved).model_overrides
        hits == { i \in 1..Len(rules) :
                    Contains(Lower(resolved), rules[i].pattern) }
    IN IF hits = {} THEN <<>>
       ELSE rules[CHOOSE i \in hits : \A j \in hits : i <= j].overrides

\* C17: the call arguments are assembled in a fixed order.  The matched
\* override mapping is applied after the caller's values, so max_tokens and
\* temperature reach the transport with the override's value when it sets
\* them; the configured credential, base URL and extra headers and the
\* caller's tools with tool_choice "auto" are attached after the overrides,
\* so an override never replaces them.
C17_ArgumentPrecedence ==
    \A c \in DOMAIN calls :
        calls[c].pc # "idle" =>
            LET kw == calls[c].kwargs
                ov == MatchedOverrides(adapter.gateway, kw.model)
            IN /\ kw.max_tokens = IF "max_tokens" \in DOMAIN ov
                                  THEN ov.max_tokens
                                  ELSE calls[c].args.max_tokens
               /\ kw.temperature = IF "temperature" \in DOMAIN ov
                                   THEN ov.temperature
                                   ELSE calls[c].args.temperature
               /\ Truthy(adapter.api_key) => kw.api_key = adapter.api_key
               /\ Truthy(adapter.api_base) => kw.api_base = adapter.api_base
               /\ adapter.extra_headers # <<>> =>
                     kw.extra_headers = adapter.extra_headers
               /\ Truthy(calls[c].args.tools) =>
                     /\ kw.tools = calls[c].args.tools
                     /\ kw.tool_choice = "auto"

\* a call whose model matches the rule that names every argument, on an
\* adapter with credential, base URL and headers, asked with tools and
\* limits of its own: the limits are the rule's, the rest the adapter's
C17_Witness ==
    \E c \in DOMAIN calls :
        /\ calls[c].pc = "done"
        /\ adapter.gateway = SpecOv
        /\ MatchedOverrides(adapter.gateway, calls[c].kwargs.model)
              = SpecOv.model_overrides[1].overrides
        /\ calls[c].args.max_tokens = 100
        /\ calls[c].args.temperature = 0
        /\ calls[c].kwargs.max_tokens = 2
        /\ calls[c].kwargs.temperature = 1
        /\ calls[c].kwargs.api_key = <<"key2">>
        /\ calls[c].kwargs.api_base = <<"base1">>
        /\ calls[c].kwargs.extra_headers = <<"X-App">>
        /\ calls[c].kwargs.tools = <<"tool">>
        /\ calls[c].kwargs.tool_choice = "auto"

=============================================================================
